---- MODULE Spec2Model ----
(***************************************************************************)
(* PartialAsyncRead (src/async_read.rs): an AsyncRead wrapper that breaks  *)
(* the reads of its inner stream up according to an iterator of PartialOp. *)
(*                                                                         *)
(* The inner stream R is the reader of the doc example (a cursor over a    *)
(* byte vector) together with a write half, so that the forwarding impls   *)
(* for duplex structs have something to forward to.  Every call is made    *)
(* from inside a task, as AsyncRead requires: task::park() needs one.      *)
(* Under FaultSpec the reads of the inner stream can fail as well.         *)
(***************************************************************************)
EXTENDS Integers, Sequences, FiniteSets, TLC

\* ---------------------------------------------------------------- bounds
MaxLimit == 2
MaxScript == 2
MaxNewScript == 1
MaxBuf == 1
MaxCalls == 3

\* ------------------------------------------------ the doc example's values
ExampleBufLen == 256
ExampleData == <<1, 2, 3, 4>>

Min(a, b) == IF a < b THEN a ELSE b

SeqsUpTo(S, n) == UNION {[1..k -> S] : k \in 0..n}

Zeros(n) == [i \in 1..n |-> 0]

\* ------------------------------------------------------------- PartialOp
None == [tag |-> "None"]
Unlimited == [tag |-> "Unlimited"]
Limited(n) == [tag |-> "Limited", n |-> n]
Err(kind) == [tag |-> "Err", kind |-> kind]

WouldBlock == "WouldBlock"
ErrorKind == {WouldBlock, "Interrupted"}

PartialOp == {Unlimited} \cup {Limited(n) : n \in 0..MaxLimit} \cup {Err(k) : k \in ErrorKind}

Scripts == SeqsUpTo(PartialOp, MaxScript)

NewScripts == SeqsUpTo(PartialOp, MaxNewScript)

\* ------------------------------------------------------------ io::Result
IoOk(n) == [ok |-> TRUE, n |-> n]
IoErr(kind) == [ok |-> FALSE, kind |-> kind]

IsWouldBlock(res) == res = IoErr(WouldBlock)

\* ------------------------------------------------------- the inner stream
\* The wrapper never looks at a byte, so the sources are the prefixes of the
\* example's data: every byte of a source is distinct.
Sources == {SubSeq(ExampleData, 1, k) : k \in 0..Len(ExampleData)}

BufLens == (0..MaxBuf) \cup {ExampleBufLen}

\* fault is the failure the next read of the stream returns, None for a
\* stream that is in order (the cursor of the example always is).
Cursor(data) == [data |-> data, pos |-> 0, reads |-> 0, written |-> <<>>, flushes |-> 0, shutdowns |-> 0, fault |-> None]

\* The failures of the inner stream's own.  WouldBlock is left out: a
\* stream that returns it arranges the wake of the task itself.
InnerErrors == {"ConnectionReset", "Interrupted"}

\* inner.read(buf): copies what is left of the data, up to the length of buf,
\* to the front of buf and advances the position by that count; a stream
\* with a fault returns it and touches nothing.
inner_read(in, b) ==
    LET n == Min(Len(b), Len(in.data) - in.pos)
    IN  IF in.fault # None
        THEN [res   |-> in.fault,
              inner |-> [in EXCEPT !.fault = None, !.reads = @ + 1],
              buf   |-> b]
        ELSE [res   |-> IoOk(n),
              inner |-> [in EXCEPT !.pos = @ + n, !.reads = @ + 1],
              buf   |-> SubSeq(in.data, in.pos + 1, in.pos + n) \o SubSeq(b, n + 1, Len(b))]

\* inner.write(buf): the write half accepts the whole of buf.
inner_write(in, b) == [res |-> IoOk(Len(b)), inner |-> [in EXCEPT !.written = @ \o b]]

inner_flush(in) == [res |-> IoOk(0), inner |-> [in EXCEPT !.flushes = @ + 1]]

inner_shutdown(in) == [res |-> IoOk(0), inner |-> [in EXCEPT !.shutdowns = @ + 1]]

WriteBufs == {<<5>>, <<5, 6>>}

\* inner, ops: the fields of PartialAsyncRead.
\* buf: the destination buffer the caller reads into.
\* task, notified: the calling task and its pending notification
\* (task::park().unpark()).
\* fut: the future of the read helper of the doc example.
\* History: installed is the iter last given to new or set_ops, pulls the
\* number of reads since; out is the concatenation of the bytes the
\* successful reads returned; first is the result of the first read; last is
\* the last call with the state before it (for set_ops, item is the entry
\* that was next in the script it discards); calls counts the calls; wakes
\* counts the unpark signals and consumed lists the entries pulled so far;
\* direct is a copy of the stream given to new, on which the forwarded calls
\* are made with no wrapper.
VARIABLES inner, ops, buf, task, notified, installed, pulls, out, first, last, fut, calls, wakes, consumed, direct

vars == <<inner, ops, buf, task, notified, installed, pulls, out, first, last, fut, calls, wakes, consumed, direct>>

\* make_ops(iter): the boxed iterator over the entries of iter.
make_ops(iter) == iter

\* self.ops.next(): the item pulled and the iterator that remains.
next(o) ==
    IF o = <<>> THEN [item |-> None, rest |-> <<>>]
    ELSE [item |-> Head(o), rest |-> Tail(o)]

limited_len_unbounded(n, b) == Len(b)

\* cmp::min(n, buf.len())
limited_len(n, b) == Min(n, Len(b))

read_limited_overread(in, b, n) ==
    LET len == limited_len(n, b)
        r   == inner_read(in, b)
    IN  [res |-> IoOk(Min(len, r.res.n)), inner |-> r.inner,
         buf |-> SubSeq(r.buf, 1, len) \o SubSeq(b, len + 1, Len(b)), unpark |-> FALSE]

read_limited_clobber(in, b, n) ==
    LET len == limited_len(n, b)
        r   == inner_read(in, b)
        cnt == IF r.res.ok THEN Min(len, r.res.n) ELSE 0
    IN  [res |-> IF r.res.ok THEN IoOk(cnt) ELSE r.res,
         inner |-> [in EXCEPT !.pos = @ + cnt, !.reads = @ + 1, !.fault = None],
         buf |-> r.buf, unpark |-> FALSE]

read_limited_skips_zero(in, b, n) ==
    LET len == limited_len(n, b)
        r   == inner_read(in, SubSeq(b, 1, len))
    IN  IF len = 0
        THEN [res |-> IoOk(0), inner |-> in, buf |-> b, unpark |-> FALSE]
        ELSE [res |-> r.res, inner |-> r.inner, buf |-> r.buf \o SubSeq(b, len + 1, Len(b)), unpark |-> FALSE]

read_limited_wraps(in, b, n) ==
    LET len == limited_len(n, b)
        r   == inner_read(in, SubSeq(b, 1, len))
    IN  [res |-> IF r.res.ok THEN r.res ELSE IoErr("Other"), inner |-> r.inner,
         buf |-> r.buf \o SubSeq(b, len + 1, Len(b)), unpark |-> FALSE]

\* Some(PartialOp::Limited(n)) => self.inner.read(&mut buf[..len])
read_limited(in, b, n) ==
    LET len == limited_len(n, b)
        r   == inner_read(in, SubSeq(b, 1, len))
    IN  [res |-> r.res, inner |-> r.inner, buf |-> r.buf \o SubSeq(b, len + 1, Len(b)), unpark |-> FALSE]

must_unpark_always(err) == TRUE

must_unpark_never(err) == FALSE

\* err == io::ErrorKind::WouldBlock
must_unpark(err) == err = WouldBlock

read_err_zeroes(in, b, err) ==
    [res |-> IoErr(err), inner |-> in, buf |-> Zeros(Len(b)), unpark |-> must_unpark(err)]

read_err_other(in, b, err) ==
    [res |-> IoErr("Other"), inner |-> in, buf |-> b, unpark |-> must_unpark(err)]

read_err_reads(in, b, err) ==
    [res |-> IoErr(err), inner |-> inner_read(in, b).inner, buf |-> b, unpark |-> must_unpark(err)]

\* Some(PartialOp::Err(err)) => Err(io::Error::new(err, ...)), after the unpark
read_err(in, b, err) ==
    [res |-> IoErr(err), inner |-> in, buf |-> b, unpark |-> must_unpark(err)]

read_unlimited_one(in, b) == read_limited(in, b, 1)

read_unlimited_twice(in, b) ==
    LET r  == inner_read(in, b)
        n  == IF r.res.ok THEN r.res.n ELSE 0
        r2 == inner_read(r.inner, SubSeq(r.buf, n + 1, Len(b)))
    IN  [res |-> IF r.res.ok /\ r2.res.ok THEN IoOk(n + r2.res.n) ELSE r.res,
         inner |-> r2.inner, buf |-> SubSeq(r.buf, 1, n) \o r2.buf, unpark |-> FALSE]

\* Some(PartialOp::Unlimited) | None => self.inner.read(buf)
read_unlimited(in, b) ==
    LET r == inner_read(in, b)
    IN  [res |-> r.res, inner |-> r.inner, buf |-> r.buf, unpark |-> FALSE]

read_replay(in, o, b) ==
    LET nx == next(o)
        r  == CASE nx.item.tag = "Limited" -> read_limited(in, b, nx.item.n)
                [] nx.item.tag = "Err" -> read_err(in, b, nx.item.kind)
                [] OTHER -> read_unlimited(in, b)
    IN  [res |-> r.res, inner |-> r.inner, ops |-> IF r.unpark THEN o ELSE nx.rest,
         buf |-> r.buf, unpark |-> r.unpark, item |-> nx.item]

read_sticky(in, o, b) ==
    LET nx == next(o)
        r  == CASE nx.item.tag = "Limited" -> read_limited(in, b, nx.item.n)
                [] nx.item.tag = "Err" -> read_err(in, b, nx.item.kind)
                [] OTHER -> read_unlimited(in, b)
    IN  IF first # None /\ ~first.ok /\ ~IsWouldBlock(first)
        THEN [res |-> first, inner |-> in, ops |-> o, buf |-> b, unpark |-> FALSE, item |-> None]
        ELSE [res |-> r.res, inner |-> r.inner, ops |-> nx.rest, buf |-> r.buf, unpark |-> r.unpark, item |-> nx.item]

\* <PartialAsyncRead as Read>::read
read(in, o, b) ==
    LET nx == next(o)
        r  == CASE nx.item.tag = "Limited" -> read_limited(in, b, nx.item.n)
                [] nx.item.tag = "Err" -> read_err(in, b, nx.item.kind)
                [] OTHER -> read_unlimited(in, b)
    IN  [res |-> r.res, inner |-> r.inner, ops |-> nx.rest, buf |-> r.buf, unpark |-> r.unpark, item |-> nx.item]

write_scripted(in, o, b) ==
    LET r == inner_write(in, b)
    IN  [res |-> r.res, inner |-> r.inner, ops |-> next(o).rest, unpark |-> FALSE]

\* <PartialAsyncRead as Write>::write
write(in, o, b) ==
    LET r == inner_write(in, b)
    IN  [res |-> r.res, inner |-> r.inner, ops |-> o, unpark |-> FALSE]

\* <PartialAsyncRead as Write>::flush
flush(in, o) ==
    LET r == inner_flush(in)
    IN  [res |-> r.res, inner |-> r.inner, ops |-> o, unpark |-> FALSE]

\* <PartialAsyncRead as AsyncWrite>::shutdown
shutdown(in, o) ==
    LET r == inner_shutdown(in)
    IN  [res |-> r.res, inner |-> r.inner, ops |-> o, unpark |-> FALSE]

\* PartialAsyncRead::get_ref
get_ref(in, o) == [res |-> in, inner |-> in, ops |-> o, unpark |-> FALSE]

get_mut_pulls(in, o) == [res |-> in, inner |-> in, ops |-> next(o).rest, unpark |-> FALSE]

\* PartialAsyncRead::get_mut
get_mut(in, o) == [res |-> in, inner |-> in, ops |-> o, unpark |-> FALSE]

\* PartialAsyncRead::into_inner: self is consumed, its inner is returned and
\* its ops are dropped with it.
into_inner(in, o) == [res |-> in, inner |-> in, ops |-> <<>>, unpark |-> FALSE]

set_ops_append(o, iter) == o \o make_ops(iter)

\* PartialAsyncRead::set_ops
set_ops(o, iter) == make_ops(iter)

NoCall == [call |-> "new", item |-> None, res |-> None, inner |-> None, ops |-> <<>>, buf |-> <<>>, unpark |-> FALSE]

Pending == [state |-> "pending", res |-> None, buf |-> <<>>]

\* PartialAsyncRead::new(reader, iter), with the destination buffer out
Init ==
    /\ \E data \in Sources : inner = Cursor(data)
    /\ direct = inner
    /\ \E iter \in Scripts : ops = make_ops(iter) /\ installed = iter
    /\ \E l \in BufLens : buf = Zeros(l)
    /\ task = "running"
    /\ notified = FALSE
    /\ pulls = 0
    /\ out = <<>>
    /\ first = None
    /\ last = NoCall
    /\ fut = Pending
    /\ calls = 0
    /\ wakes = 0
    /\ consumed = <<>>

\* One call of read on the wrapper from inside the running task.  A
\* WouldBlock result makes the poll return NotReady: the task is parked
\* until it is notified.
ReadCall(r) ==
    /\ task = "running"
    /\ inner' = r.inner
    /\ ops' = r.ops
    /\ buf' = r.buf
    /\ notified' = (notified \/ r.unpark)
    /\ task' = IF IsWouldBlock(r.res) THEN "parked" ELSE "running"
    /\ pulls' = pulls + 1
    /\ out' = IF r.res.ok THEN out \o SubSeq(r.buf, 1, r.res.n) ELSE out
    /\ first' = IF first = None THEN r.res ELSE first
    /\ last' = [call |-> "read", item |-> r.item, res |-> r.res, inner |-> inner, ops |-> ops, buf |-> buf, unpark |-> r.unpark]
    /\ wakes' = wakes + (IF r.unpark THEN 1 ELSE 0)
    /\ consumed' = IF r.item = None THEN consumed ELSE Append(consumed, r.item)
    /\ UNCHANGED <<installed, direct>>

Read ==
    /\ calls < MaxCalls
    /\ ReadCall(read(inner, ops, buf))
    /\ calls' = calls + 1
    /\ UNCHANGED fut

\* The executor polls a parked task again once it has been notified.
Repoll ==
    /\ task = "parked"
    /\ notified
    /\ task' = "running"
    /\ notified' = FALSE
    /\ UNCHANGED <<inner, ops, buf, installed, pulls, out, first, last, fut, calls, wakes, consumed, direct>>

SetOps ==
    /\ calls < MaxCalls
    /\ \E iter \in NewScripts :
        /\ ops' = set_ops(ops, iter)
        /\ installed' = iter
    /\ pulls' = 0
    /\ calls' = calls + 1
    /\ last' = [NoCall EXCEPT !.call = "set_ops", !.item = next(ops).item, !.inner = inner, !.buf = buf]
    /\ UNCHANGED <<inner, buf, task, notified, out, first, fut, wakes, consumed, direct>>

\* A forwarded call (write, flush or shutdown) from inside the running task.
Forward(name, arg, r) ==
    /\ task = "running"
    /\ calls < MaxCalls
    /\ inner' = r.inner
    /\ ops' = r.ops
    /\ notified' = (notified \/ r.unpark)
    /\ calls' = calls + 1
    /\ last' = [call |-> name, item |-> None, res |-> r.res, inner |-> inner, ops |-> ops, buf |-> arg, unpark |-> r.unpark]
    /\ wakes' = wakes + (IF r.unpark THEN 1 ELSE 0)
    /\ direct' = (CASE name = "write" -> inner_write(direct, arg)
                    [] name = "flush" -> inner_flush(direct)
                    [] OTHER -> inner_shutdown(direct)).inner
    /\ UNCHANGED <<buf, task, installed, pulls, out, first, fut, consumed>>

Write == \E b \in WriteBufs : Forward("write", b, write(inner, ops, b))

Flush == Forward("flush", <<>>, flush(inner, ops))

Shutdown == Forward("shutdown", <<>>, shutdown(inner, ops))

\* A task that reads from a duplex stream and writes to it.
Next == Read \/ Repoll \/ Write \/ Flush \/ Shutdown

Spec == Init /\ [][Next]_vars

\* get_ref, get_mut or into_inner, called by the owner of the wrapper.
Access(name, r) ==
    /\ calls < MaxCalls
    /\ inner' = r.inner
    /\ ops' = r.ops
    /\ notified' = (notified \/ r.unpark)
    /\ wakes' = wakes + (IF r.unpark THEN 1 ELSE 0)
    /\ calls' = calls + 1
    /\ last' = [call |-> name, item |-> None, res |-> r.res, inner |-> inner, ops |-> ops, buf |-> buf, unpark |-> r.unpark]
    /\ UNCHANGED <<buf, task, installed, pulls, out, first, fut, consumed, direct>>

GetRef == Access("get_ref", get_ref(inner, ops))

GetMut == Access("get_mut", get_mut(inner, ops))

IntoInner == Access("into_inner", into_inner(inner, ops))

\* A task that reads and has its script replaced between reads, with one
\* length of destination buffer.
InitScript == Init /\ Len(buf) = MaxBuf

NextScript == Read \/ Repoll \/ SetOps

ScriptSpec == InitScript /\ [][NextScript]_vars

\* The inner stream goes wrong: its next read fails.
Break ==
    /\ calls < MaxCalls
    /\ inner.fault = None
    /\ \E k \in InnerErrors : inner' = [inner EXCEPT !.fault = IoErr(k)]
    /\ calls' = calls + 1
    /\ last' = [NoCall EXCEPT !.call = "fault", !.inner = inner, !.ops = ops, !.buf = buf]
    /\ UNCHANGED <<ops, buf, task, notified, installed, pulls, out, first, fut, wakes, consumed, direct>>

\* A task that reads from a stream that fails now and then.
NextFault == Read \/ Repoll \/ Break

FaultSpec == Init /\ [][NextFault]_vars

\* Every method of the wrapper, until into_inner consumes it.
Live == last.call # "into_inner"

NextApi ==
    \/ Live /\ Read
    \/ Live /\ Repoll
    \/ Live /\ SetOps
    \/ Live /\ Write
    \/ Live /\ Flush
    \/ Live /\ Shutdown
    \/ Live /\ GetRef
    \/ Live /\ GetMut
    \/ Live /\ IntoInner

\* The reader is the example's, with one length of destination buffer.
InitApi == InitScript /\ inner.data = ExampleData

ApiSpec == InitApi /\ [][NextApi]_vars

\* The poll of the future tokio_read(partial_reader, out): one read into
\* out; WouldBlock is NotReady, anything else completes the future.
PollRead ==
    /\ fut.state = "pending"
    /\ LET r == read(inner, ops, buf)
       IN  /\ ReadCall(r)
           /\ fut' = IF IsWouldBlock(r.res) THEN fut
                     ELSE [state |-> "done", res |-> r.res, buf |-> r.buf]
    /\ UNCHANGED calls

NextFut == PollRead \/ Repoll

\* core.run(read_fut): the reactor polls the future whenever its task has
\* been notified, until the future completes.
FutSpec == Init /\ [][NextFut]_vars /\ WF_vars(PollRead) /\ WF_vars(Repoll)

\* ------------------------------------------------------------------ claims
LastRead == last.call = "read"

Remaining(in) == Len(in.data) - in.pos

\* C1: a read whose pulled entry is Limited(n), with a destination of length
\* L and r bytes left in the source, returns a count that never exceeds
\* min(n, L), equals min(n, L) when r >= min(n, L) and equals r otherwise.
C1_LimitedCount ==
    (LastRead /\ last.item.tag = "Limited") =>
        LET n == last.item.n
            L == Len(last.buf)
            m == IF n < L THEN n ELSE L
            r == Remaining(last.inner)
        IN  /\ last.res.ok
            /\ last.res.n <= m
            /\ (r >= m => last.res.n = m)
            /\ (r < m => last.res.n = r)

C1_Witness ==
    /\ LastRead
    /\ last.item = Limited(1)
    /\ Len(last.buf) = ExampleBufLen
    /\ Remaining(last.inner) >= 2
    /\ last.res = IoOk(1)

\* C2: a read whose pulled entry is Err(kind) does not invoke the read of the
\* inner stream and fails with exactly the scripted kind.
C2_ErrNoDelegation ==
    (LastRead /\ last.item.tag = "Err") =>
        /\ inner.reads = last.inner.reads
        /\ last.res = IoErr(last.item.kind)

C2_Witness ==
    /\ LastRead
    /\ last.item = Err("Interrupted")
    /\ last.res = IoErr("Interrupted")
    /\ Remaining(inner) > 0
    /\ Len(buf) > 0

\* C3: once the script is exhausted every read returns what the same read on
\* the inner stream itself returns, and leaves the inner stream and the
\* destination as that read leaves them, and the script stays exhausted; a
\* scripted Unlimited does the same for its one call.
C3_PassThrough ==
    (LastRead /\ (last.ops = <<>> \/ last.item = Unlimited)) =>
        LET d == inner_read(last.inner, last.buf)
        IN  /\ last.res = d.res
            /\ inner = d.inner
            /\ buf = d.buf
            /\ (last.ops = <<>> => ops = <<>>)

C3_Witness ==
    /\ LastRead
    /\ installed # <<>>
    /\ last.ops = <<>>
    /\ last.res.ok
    /\ last.res.n >= 2

\* C4: without set_ops the i-th read is governed by the i-th entry of the
\* script, whatever the earlier reads returned; reads past the end of the
\* script pull nothing.
C4_InOrder ==
    LastRead =>
        /\ last.item = (IF pulls <= Len(installed) THEN installed[pulls] ELSE None)
        /\ last.ops = SubSeq(installed, pulls, Len(installed))

C4_Witness ==
    /\ LastRead
    /\ pulls = 2
    /\ Len(installed) = 2
    /\ installed[1] = Err(WouldBlock)
    /\ installed[2] = Limited(1)
    /\ last.item = Limited(1)

\* C5: set_ops leaves the new script and nothing of the old one: right after
\* it the queue is the new script, and every later read is governed by the
\* entry of the new script at the number of reads since.
C5_SetOpsDiscards ==
    /\ last.call = "set_ops" => ops = installed
    /\ (LastRead /\ pulls = 1) =>
            last.item = (IF installed = <<>> THEN None ELSE Head(installed))
    /\ LastRead => ops = SubSeq(installed, pulls + 1, Len(installed))

C5_Witness ==
    /\ last.call = "set_ops"
    /\ last.item # None
    /\ last.inner.reads > 0
    /\ installed # <<>>
    /\ Head(installed) # last.item
    /\ ops = installed

\* C6: the bytes returned by the successful reads, concatenated, are always
\* the bytes of the source up to its position, so once the source is
\* exhausted they are the source's bytes in order.
C6_Reassembly ==
    /\ out = SubSeq(inner.data, 1, inner.pos)
    /\ inner.pos = Len(inner.data) => out = inner.data

C6_Witness ==
    /\ inner.data = ExampleData
    /\ out = ExampleData
    /\ installed # <<>>
    /\ ops = <<>>
    /\ LastRead
    /\ last.res.ok
    /\ last.res.n < Len(ExampleData)

\* C7: a read whose entry is Err(WouldBlock) wakes the task and returns the
\* error; a read whose entry is Err of another kind returns the error with
\* no wake; neither reads from the inner stream nor pulls a second entry.
C7_WakeRule ==
    (LastRead /\ last.item.tag = "Err") =>
        /\ last.unpark = (last.item.kind = WouldBlock)
        /\ last.res = IoErr(last.item.kind)
        /\ (last.unpark /\ task = "parked") => notified
        /\ inner = last.inner
        /\ ops = Tail(last.ops)

C7_Witness ==
    /\ LastRead
    /\ first = IoErr(WouldBlock)
    /\ last.item = Err("Interrupted")
    /\ ~last.unpark
    /\ ~notified

\* C8: a parked task always has a wake pending, and the future that polls
\* the read again whenever its task is woken completes with a result that
\* is not WouldBlock.
C8_Progress ==
    /\ [](task = "parked" => notified)
    /\ (first = IoErr(WouldBlock)) ~> (fut.state = "done" /\ ~IsWouldBlock(fut.res))
    /\ <>(fut.state = "done")

C8_Witness ==
    /\ first = IoErr(WouldBlock)
    /\ pulls >= 3
    /\ fut.state = "done"
    /\ fut.res.ok

\* C9: with source [1, 2, 3, 4], script [Err(WouldBlock), Limited(2)] and a
\* zeroed destination of length 256 the first read fails with WouldBlock and
\* the future completes with size 2 and a destination that begins 1, 2, 0.
IsExample ==
    /\ inner.data = ExampleData
    /\ installed = <<Err(WouldBlock), Limited(2)>>
    /\ Len(buf) = ExampleBufLen

C9_DocExample ==
    IsExample =>
        /\ first \in {None, IoErr(WouldBlock)}
        /\ fut.state = "done" =>
            /\ first = IoErr(WouldBlock)
            /\ fut.res = IoOk(2)
            /\ SubSeq(fut.buf, 1, 3) = <<1, 2, 0>>
        /\ pulls >= 2 => fut.state = "done"

C9_Witness ==
    /\ IsExample
    /\ fut.state = "done"
    /\ fut.res = IoOk(2)

\* C10: write, flush and shutdown do to the inner stream what the same call
\* on it does, return its result, pull nothing from the script and wake
\* nobody; the script left is always the script less one entry a read.
IsForward == last.call \in {"write", "flush", "shutdown"}

Direct ==
    CASE last.call = "write" -> inner_write(last.inner, last.buf)
      [] last.call = "flush" -> inner_flush(last.inner)
      [] OTHER -> inner_shutdown(last.inner)

C10_ForwardBypass ==
    /\ IsForward =>
        /\ ops = last.ops
        /\ ~last.unpark
        /\ inner = Direct.inner
        /\ last.res = Direct.res
    /\ ops = SubSeq(installed, pulls + 1, Len(installed))

C10_Witness ==
    /\ last.call = "write"
    /\ pulls = 1
    /\ Len(ops) = 1
    /\ last.inner.written # <<>>
    /\ Len(inner.written) > Len(last.inner.written)

\* C11: into_inner returns the inner stream as it is: its write half is what
\* the forwarded calls made directly would have left, its read position is
\* the sum of the counts the successful reads returned, and a read on it
\* returns the bytes that follow them.
C11_Unwrap ==
    last.call = "into_inner" =>
        LET s    == last.res
            rest == inner_read(s, Zeros(Len(s.data)))
        IN  /\ s = last.inner
            /\ s.data = direct.data
            /\ s.written = direct.written
            /\ s.flushes = direct.flushes
            /\ s.shutdowns = direct.shutdowns
            /\ s.pos = Len(out)
            /\ rest.res.ok
            /\ out \o SubSeq(rest.buf, 1, rest.res.n) = direct.data

C11_Witness ==
    /\ last.call = "into_inner"
    /\ Len(consumed) = 2
    /\ consumed[1].tag = "Err"
    /\ consumed[2].tag = "Limited"
    /\ Len(out) > 0
    /\ Len(out) < Len(last.res.data)

\* C12: a read fails only with the kind of the Err entry it pulled, or, on a
\* Limited or Unlimited entry or an exhausted script, with the failure the
\* read of the inner stream returned, unchanged.
C12_NoOwnErrors ==
    LastRead =>
        /\ last.item.tag = "Err" => last.res = IoErr(last.item.kind)
        /\ (last.item.tag # "Err" /\ last.inner.fault # None) =>
                /\ last.res = last.inner.fault
                /\ inner.reads = last.inner.reads + 1
        /\ (last.item.tag # "Err" /\ last.inner.fault = None) => last.res.ok

C12_Witness ==
    /\ LastRead
    /\ last.item.tag = "Limited"
    /\ last.res = IoErr("ConnectionReset")
    /\ first = IoErr("Interrupted")

\* C13: a read pulls exactly one entry, or none from an exhausted script,
\* makes at most one read of the inner stream and sends at most one wake;
\* the wakes sent so far are as many as the Err(WouldBlock) entries pulled.
WouldBlocks(s) == Cardinality({i \in 1..Len(s) : s[i] = Err(WouldBlock)})

C13_OncePerCall ==
    /\ LastRead =>
        /\ Len(last.ops) - Len(ops) = (IF last.ops = <<>> THEN 0 ELSE 1)
        /\ inner.reads - last.inner.reads \in {0, 1}
        /\ inner.reads - last.inner.reads = (IF last.item.tag = "Err" THEN 0 ELSE 1)
        /\ last.unpark => wakes > 0
    /\ wakes = WouldBlocks(consumed)

C13_Witness ==
    /\ LastRead
    /\ last.item = None
    /\ wakes = 1
    /\ Len(consumed) = 2
    /\ consumed[2] = Err("Interrupted")
    /\ inner.reads = 1

\* C14: a read that fails with a scripted Err leaves the destination and the
\* inner stream, its read position included, as they were; of the wrapper
\* only the script changes, by the one entry pulled.  (The wake of the task
\* on WouldBlock is a signal to the scheduler, not state of the wrapper.)
C14_ErrFrame ==
    (LastRead /\ last.item.tag = "Err") =>
        /\ buf = last.buf
        /\ inner.pos = last.inner.pos
        /\ inner = last.inner
        /\ last.ops # <<>>
        /\ ops = Tail(last.ops)
        /\ Len(out) = inner.pos

C14_Witness ==
    /\ LastRead
    /\ last.item.tag = "Err"
    /\ Len(last.buf) > 0
    /\ last.buf[1] # 0
    /\ buf = last.buf
    /\ Remaining(inner) > 0

\* C15: a read governed by Limited(n) with a destination of length L leaves
\* every destination byte at an index from min(n, L) on as it was, and
\* advances the position of the source by exactly the count it returns.
C15_LimitedFrame ==
    (LastRead /\ last.item.tag = "Limited") =>
        LET n == last.item.n
            L == Len(last.buf)
            m == IF n < L THEN n ELSE L
        IN  /\ Len(buf) = L
            /\ \A i \in (m + 1)..L : buf[i] = last.buf[i]
            /\ last.res.ok
            /\ inner.pos = last.inner.pos + last.res.n
            /\ \A i \in 1..last.res.n : buf[i] = inner.data[last.inner.pos + i]

C15_Witness ==
    /\ LastRead
    /\ last.item = Limited(1)
    /\ Len(last.buf) = ExampleBufLen
    /\ last.buf[2] # 0
    /\ buf[2] = last.buf[2]
    /\ buf[1] # last.buf[1]
    /\ last.res = IoOk(1)

\* C16: the result of a read and the state it leaves are a function of the
\* next entry of the script, the state of the inner stream and the
\* destination alone: whatever the calls before it were, they are what
\* Outcome gives for these three, so two wrappers that agree on the three
\* agree on the result and on the state after.
Outcome(e, in, b) ==
    CASE e.tag = "Limited" -> read_limited(in, b, e.n)
      [] e.tag = "Err" -> read_err(in, b, e.kind)
      [] OTHER -> read_unlimited(in, b)

C16_NoGlobalState ==
    LastRead =>
        LET e == IF last.ops = <<>> THEN None ELSE Head(last.ops)
            x == Outcome(e, last.inner, last.buf)
        IN  /\ last.res = x.res
            /\ last.unpark = x.unpark
            /\ inner = x.inner
            /\ buf = x.buf
            /\ ops = (IF last.ops = <<>> THEN <<>> ELSE Tail(last.ops))

C16_Witness ==
    /\ LastRead
    /\ Len(consumed) = 2
    /\ consumed[1] = Err("Interrupted")
    /\ consumed[2] = Err("Interrupted")
    /\ last.ops = <<>>
    /\ last.res.ok
    /\ last.res.n > 0

\* C17: a read governed by Limited(0) still makes one read of the inner
\* stream, with an empty slice, and returns 0 with the source and the
\* destination untouched, also when the source has bytes left and the
\* destination is not empty; the entry is consumed.
C17_LimitedZero ==
    (LastRead /\ last.item = Limited(0)) =>
        /\ inner.reads = last.inner.reads + 1
        /\ last.res = IoOk(0)
        /\ inner.pos = last.inner.pos
        /\ buf = last.buf
        /\ ops = Tail(last.ops)
        /\ ~last.unpark

C17_Witness ==
    /\ LastRead
    /\ last.item = Limited(0)
    /\ Remaining(last.inner) > 0
    /\ Len(last.buf) > 0
    /\ ops # <<>>
    /\ last.res = IoOk(0)

\* C18: new, set_ops, get_ref, get_mut and into_inner never read from the
\* inner stream and never wake the task, and set_ops leaves the source as it
\* was; new, get_ref and get_mut leave the script as it is, set_ops leaves
\* the new script, and into_inner, which consumes the wrapper, leaves no
\* script: none of them pulls an entry.
IsAccessor == last.call \in {"get_ref", "get_mut", "into_inner"}

C18_AccessorFrame ==
    /\ last.call = "new" =>
        /\ inner.reads = 0
        /\ wakes = 0
        /\ consumed = <<>>
        /\ ops = installed
    /\ (IsAccessor \/ last.call = "set_ops") =>
        /\ inner = last.inner
        /\ ~last.unpark
        /\ wakes = WouldBlocks(consumed)
    /\ last.call = "set_ops" => ops = installed
    /\ last.call \in {"get_ref", "get_mut"} =>
        /\ ops = last.ops
        /\ last.res = inner
    /\ last.call = "into_inner" =>
        /\ ops = <<>>
        /\ last.res = last.inner

C18_Witness ==
    /\ last.call = "into_inner"
    /\ last.ops # <<>>
    /\ Len(consumed) = 1
    /\ ops = <<>>
    /\ Remaining(last.res) > 0

\* C18 as stated: apart from set_ops, none of these calls pulls or drops an
\* entry of the script, into_inner included.
C18_Original ==
    /\ (IsAccessor \/ last.call = "set_ops") =>
        /\ inner = last.inner
        /\ ~last.unpark
    /\ IsAccessor => ops = last.ops

====
